---- MODULE Spec2Model ----
(***************************************************************************)
(* Anomaly detection pipeline: the offline training job                    *)
(* (from_model_to_production.py) and the online scoring service (main.py). *)
(*                                                                         *)
(* Units.  All quantities are exact integers in fixed point:               *)
(*   temperatures   in hundredths of a degree (300.00 K = 30000),          *)
(*   rpm            in whole revolutions per minute,                       *)
(*   humidity/noise in thousandths of a percent (45.0 = 45000),            *)
(*   detector score in units of 1e-5.                                      *)
(* In these units the weights -0.5 %/degree and 0.005 %/rpm are -5 and 5.  *)
(* Floating-point rounding of the arithmetic is not modelled; every        *)
(* reading is a finite number.                                             *)
(***************************************************************************)
EXTENDS Integers, Sequences, FiniteSets, TLC

VARIABLES
    dataFile,       \* the file at FILE_PATH (/data/predictive_maintenance.csv)
    artifactFile,   \* the file at MODEL_SAVE_PATH = MODEL_PATH (/results/...joblib)
    tpc,            \* position of the training job inside main()
    df,             \* main(): df
    features_df,    \* main(): features_df
    model,          \* main(): model
    noise,          \* engineer_features(): the noise vector it drew
    detectorCalls,  \* every (operation, columns) handed to an IsolationForest
    ml_models,      \* main.py: the module-level registry dict
    lpc,            \* lifespan position of the service: "init", "serving", "stopped"
    rng,            \* state of the process-global numpy generator of the service
    threads         \* the request worker threads of the service

vars == <<dataFile, artifactFile, tpc, df, features_df, model, noise, detectorCalls,
          ml_models, lpc, rng, threads>>

trainVars == <<dataFile, artifactFile, tpc, df, features_df, model, noise>>
serveVars == <<ml_models, lpc, rng, threads>>

\* ------------------------------------------------------------- bounds

\* Number of concurrent request worker threads of the service.
NumThreads == 2

\* Number of distinct states of the service's global random generator.
RngStates == 2

Threads == 1..NumThreads

\* ------------------------------------------------------------- values

\* Python's None.
None == [kind |-> "None"]

Range(s) == {s[i] : i \in DOMAIN s}

RECURSIVE Sum(_)
Sum(s) == IF s = <<>> THEN 0 ELSE Head(s) + Sum(Tail(s))

\* pandas Series.mean() of a non-empty column.  The sample corpora below have
\* exact means in the model's units, so the integer quotient is the mean.
Mean(s) == Sum(s) \div Len(s)

\* pandas Series.clip(lower, upper), elementwise.
ClipMut(x, lo, hi) == IF x < lo THEN lo ELSE x
Clip(x, lo, hi) == IF x < lo THEN lo ELSE IF x > hi THEN hi ELSE x

\* ------------------------------------------------------------- data frames
\* A DataFrame is [kind, columns, rows]: the ordered column labels and, per
\* row, a function from column label to value.

DataFrame(cols, rows) == [kind |-> "DataFrame", columns |-> cols, rows |-> rows]

HasColumns(f, cols) == Range(cols) \subseteq Range(f.columns)

Column(f, name) == [i \in DOMAIN f.rows |-> f.rows[i][name]]

\* df[[...]]: the listed columns, in the listed order.
Select(f, cols) ==
    DataFrame(cols, [i \in DOMAIN f.rows |-> [c \in Range(cols) |-> f.rows[i][c]]])

\* df.rename(columns={old: new}): the label changes in place, position kept.
Rename(f, old, new) ==
    LET cols == [i \in DOMAIN f.columns |->
                    IF f.columns[i] = old THEN new ELSE f.columns[i]]
    IN  DataFrame(cols,
            [i \in DOMAIN f.rows |->
                [c \in Range(cols) |-> f.rows[i][IF c = new THEN old ELSE c]]])

\* df[name] = values: overwrites the column, or appends it as the last one.
Assign(f, name, values) ==
    LET cols == IF name \in Range(f.columns) THEN f.columns
                ELSE Append(f.columns, name)
    IN  DataFrame(cols,
            [i \in DOMAIN f.rows |->
                [c \in Range(cols) |-> IF c = name THEN values[i] ELSE f.rows[i][c]]])

\* df.drop(columns=[name]).
Drop(f, name) ==
    LET Keep(c) == c # name
        cols == SelectSeq(f.columns, Keep)
    IN  DataFrame(cols, [i \in DOMAIN f.rows |-> [c \in Range(cols) |-> f.rows[i][c]]])

\* ------------------------------------------------------------- training job

\* Column order the training job selects before fitting.
TrainColumns == <<"sound_volume_proxy", "temperature_celsius", "humidity">>

\* Half-open noise interval of the batch path: np.random.uniform(-2.5, 2.5).
TrainNoiseLow == -2500
TrainNoiseHigh == 2500

\* Sample noise draws of the batch path, the extremes included.
TrainNoiseSamples == {TrainNoiseLow, TrainNoiseHigh - 1}

\* engineer_features(df), given the noise vector np.random.uniform draws.
engineer_features(d, draw) ==
    LET f0 == Select(d, <<"Air temperature [K]", "Rotational speed [rpm]">>)
        f1 == Rename(f0, "Rotational speed [rpm]", "sound_volume_proxy")
        f2 == Assign(f1, "temperature_celsius",
                  [i \in DOMAIN f1.rows |-> f1.rows[i]["Air temperature [K]"] - 27315])
        f3 == Drop(f2, "Air temperature [K]")
        base_humidity == 45000
        temp_mean == Mean(Column(f3, "temperature_celsius"))
        rpm_mean == Mean(Column(f3, "sound_volume_proxy"))
        temp_weight == -5
        rpm_weight == 5
        humidity == [i \in DOMAIN f3.rows |->
                        base_humidity
                        + (f3.rows[i]["temperature_celsius"] - temp_mean) * temp_weight
                        + (f3.rows[i]["sound_volume_proxy"] - rpm_mean) * rpm_weight]
        f4 == Assign(f3, "humidity", humidity)
        f5 == Assign(f4, "humidity",
                  [i \in DOMAIN f4.rows |-> f4.rows[i]["humidity"] + draw[i]])
        f6 == Assign(f5, "humidity",
                  [i \in DOMAIN f5.rows |-> Clip(f5.rows[i]["humidity"], 0, 100000)])
    IN  Select(f6, TrainColumns)

\* A frame handed to a detector: the calling function, the detector method
\* and the frame's column labels in order.
DetectorCall(site, op, f) == [site |-> site, op |-> op, columns |-> f.columns]

\* A fitted IsolationForest, as far as its callers can tell: the columns it was
\* fitted on (feature_names_in_).  Trees and threshold are opaque.
IsolationForest(cols) == [kind |-> "IsolationForest", feature_names_in_ |-> cols]

\* train_model(features_df): the fitted detector.
train_model(f) == IsolationForest(f.columns)

\* ---- files of the training job

CsvColumns == <<"Air temperature [K]", "Process temperature [K]", "Rotational speed [rpm]">>

CsvRow(temp_k, rpm) ==
    [c \in Range(CsvColumns) |->
        IF c = "Air temperature [K]" THEN temp_k
        ELSE IF c = "Rotational speed [rpm]" THEN rpm ELSE temp_k + 1000]

Csv(cols, rows) == [kind |-> "csv", columns |-> cols, rows |-> rows]

\* Sample corpora: a header-only file, one row, two rows far enough apart to
\* clip at both ends, two ordinary rows, and two rows whose means are the
\* service's literals (26.85 C, 1538 rpm).
Corpora ==
    { <<>>,
      <<CsvRow(30000, 1500)>>,
      <<CsvRow(0, 1500), CsvRow(60000, 2800)>>,
      <<CsvRow(30000, 1500), CsvRow(30830, 2800)>>,
      <<CsvRow(29900, 1500), CsvRow(30100, 1576)>> }

\* A CSV without the rpm column.
ForeignCsv ==
    Csv(<<"Air temperature [K]", "Process temperature [K]">>,
        <<[c \in {"Air temperature [K]", "Process temperature [K]"} |-> 30000]>>)

CsvFiles == {Csv(CsvColumns, rows) : rows \in Corpora} \cup {ForeignCsv}

Absent == [kind |-> "absent"]
Unreadable == [kind |-> "unreadable"]

\* What kagglehub.dataset_download can end in: an exception, or a CSV.
DownloadFailed == [kind |-> "failed"]
DownloadOutcomes == {DownloadFailed} \cup CsvFiles

\* load_data(): the file left at FILE_PATH and the value returned.
load_data(file, download) ==
    LET present == IF file = Absent THEN download ELSE file
    IN  IF present = DownloadFailed
        THEN [file |-> file, result |-> None]
        ELSE IF present.kind = "csv"
             THEN [file |-> present,
                   result |-> DataFrame(present.columns, present.rows)]
             ELSE [file |-> present, result |-> None]

\* main(): `if df is None: return`.
AfterLoad(d) == IF d = None THEN "returned" ELSE "loaded"

LoadData ==
    /\ tpc = "start"
    /\ \E download \in DownloadOutcomes :
          LET r == load_data(dataFile, download)
          IN  /\ dataFile' = r.file
              /\ df' = r.result
              /\ tpc' = AfterLoad(r.result)
    /\ UNCHANGED <<artifactFile, features_df, model, noise, detectorCalls>>
    /\ UNCHANGED serveVars

\* main(): features_df = engineer_features(df).  A frame without the two raw
\* columns raises KeyError and the job dies.
EngineerFeatures ==
    /\ tpc = "loaded"
    /\ IF HasColumns(df, <<"Air temperature [K]", "Rotational speed [rpm]">>)
       THEN \E n \in [DOMAIN df.rows -> TrainNoiseSamples] :
               /\ noise' = n
               /\ features_df' = engineer_features(df, n)
               /\ tpc' = "engineered"
       ELSE /\ tpc' = "crashed"
            /\ UNCHANGED <<features_df, noise>>
    /\ UNCHANGED <<dataFile, artifactFile, df, model, detectorCalls>>
    /\ UNCHANGED serveVars

\* main(): model = train_model(features_df).  IsolationForest.fit raises
\* ValueError on a frame of zero rows and the job dies.
TrainModel ==
    /\ tpc = "engineered"
    /\ detectorCalls' = detectorCalls \cup
          {DetectorCall("train_model", "fit", features_df)}
    /\ IF Len(features_df.rows) = 0
       THEN /\ tpc' = "crashed"
            /\ UNCHANGED model
       ELSE /\ model' = train_model(features_df)
            /\ tpc' = "trained"
    /\ UNCHANGED <<dataFile, artifactFile, df, features_df, noise>>
    /\ UNCHANGED serveVars

\* main() reaches save_model(model) once the three steps before it returned.
SaveReachedMut(pc) == pc \in {"loaded", "engineered", "trained"}
SaveReached(pc) == pc = "trained"

\* save_model(model): joblib.dump to MODEL_SAVE_PATH.
SaveModel ==
    /\ SaveReached(tpc)
    /\ artifactFile' = model
    /\ tpc' = "saved"
    /\ UNCHANGED <<dataFile, df, features_df, model, noise, detectorCalls>>
    /\ UNCHANGED serveVars

\* run_simulation(): the hard-coded stream.
simulated_stream ==
    << [temperature_celsius |-> 2600, humidity |-> 45000, sound_volume_proxy |-> 1500],
       [temperature_celsius |-> 2750, humidity |-> 42100, sound_volume_proxy |-> 1550],
       [temperature_celsius |-> 3500, humidity |-> 30000, sound_volume_proxy |-> 2800],
       [temperature_celsius |-> 2650, humidity |-> 44000, sound_volume_proxy |-> 1510] >>

\* run_simulation(): the one-row frame built for a stream item.
SimulationColumns == <<"sound_volume_proxy", "temperature_celsius", "humidity">>

input_df(data) ==
    LET values == <<data.sound_volume_proxy, data.temperature_celsius, data.humidity>>
    IN  DataFrame(SimulationColumns,
            <<[c \in Range(SimulationColumns) |->
                values[CHOOSE i \in DOMAIN SimulationColumns : SimulationColumns[i] = c]]>>)

\* run_simulation(model): predict and decision_function per stream item; the
\* results are only printed.
RunSimulation ==
    /\ tpc = "saved"
    /\ detectorCalls' = detectorCalls \cup
          UNION { { DetectorCall("run_simulation", "predict",
                                 input_df(simulated_stream[i])),
                    DetectorCall("run_simulation", "decision_function",
                                 input_df(simulated_stream[i])) }
                  : i \in DOMAIN simulated_stream }
    /\ tpc' = "finished"
    /\ UNCHANGED <<dataFile, artifactFile, df, features_df, model, noise>>
    /\ UNCHANGED serveVars

TrainNext == LoadData \/ EngineerFeatures \/ TrainModel \/ SaveModel \/ RunSimulation

\* ------------------------------------------------------------- scoring service

\* A Python dict: a function on its keys.
EmptyDict == [k \in {} |-> None]

DictSet(d, k, v) == [x \in DOMAIN d \cup {k} |-> IF x = k THEN v ELSE d[x]]

NoFile == [kind |-> "absent"]

\* An artifact left at MODEL_PATH by a training run over another feature schema.
StaleArtifact == IsolationForest(<<"sound_volume_proxy", "temperature_celsius">>)

\* lifespan(), up to the yield: the value stored under "isolation_forest".
LoadedEntry(file) == IF file # NoFile THEN file ELSE None

\* lifespan(), up to the yield: the registry after startup.
StartupRegistryMut(registry, file) ==
    IF file # NoFile THEN DictSet(registry, "isolation_forest", file) ELSE registry
StartupRegistry(registry, file) ==
    DictSet(registry, "isolation_forest", LoadedEntry(file))

Startup ==
    /\ lpc = "init"
    /\ ml_models' = StartupRegistry(ml_models, artifactFile)
    /\ lpc' = "serving"
    /\ UNCHANGED <<rng, threads, detectorCalls>>
    /\ UNCHANGED trainVars

\* ---- requests

\* The registry a request handler leaves behind: no handler assigns to it.
HandlerRegistryMut(registry) == DictSet(registry, "isolation_forest", None)
HandlerRegistry(registry) == registry

\* predict_anomaly(): `ml_models["isolation_forest"] is None`.
ModelMissingMut(registry) == "isolation_forest" \notin DOMAIN registry
ModelMissing(registry) == registry["isolation_forest"] = None

SensorReading(temp_k, rpm) ==
    [kind |-> "SensorReading", temperature_k |-> temp_k, rotational_speed_rpm |-> rpm]

\* Sample readings: the simulator's normal point, and two extreme
\* temperatures that drive the humidity past either end.
Readings ==
    { SensorReading(30000, 1500), SensorReading(0, 1500), SensorReading(60000, 2800) }

\* A request body that is no SensorReading (a non-numeric field).
Malformed == [kind |-> "malformed"]

Requests == Readings \cup {Malformed}

NoResponse == [code |-> 0]

HttpError(code, detail) == [code |-> code, detail |-> detail]

Ok(body) == [code |-> 200, body |-> body]

IdleThread ==
    [pc |-> "idle", reading |-> None, processed_data |-> None,
     prediction |-> 0, score |-> 0, response |-> NoResponse]

\* Half-open noise interval of the single-row path: np.random.uniform(-0.5, 0.5).
ServeNoiseLow == -500
ServeNoiseHigh == 500

\* The draw np.random.uniform returns in generator state s, and the state
\* the draw leaves behind.  The generator is abstracted to a short cycle.
NoiseAt(s) == ServeNoiseLow + ((s * 999) % (ServeNoiseHigh - ServeNoiseLow))
NextRng(s) == (s + 1) % RngStates

\* Column order engineer_single_row returns.
ServeColumnsMut == <<"sound_volume_proxy", "humidity", "temperature_celsius">>
ServeColumns == <<"sound_volume_proxy", "temperature_celsius", "humidity">>

\* engineer_single_row(temp_k, rpm), given the draw of np.random.uniform.
engineer_single_row(temp_k, rpm, draw) ==
    LET f0 == DataFrame(<<"Air temperature [K]", "Rotational speed [rpm]">>,
                  <<[c \in {"Air temperature [K]", "Rotational speed [rpm]"} |->
                        IF c = "Air temperature [K]" THEN temp_k ELSE rpm]>>)
        f1 == Rename(f0, "Rotational speed [rpm]", "sound_volume_proxy")
        f2 == Assign(f1, "temperature_celsius",
                  [i \in DOMAIN f1.rows |-> f1.rows[i]["Air temperature [K]"] - 27315])
        f3 == Drop(f2, "Air temperature [K]")
        base_humidity == 45000
        temp_mean == 2685
        rpm_mean == 1538
        temp_weight == -5
        rpm_weight == 5
        humidity == [i \in DOMAIN f3.rows |->
                        base_humidity
                        + (f3.rows[i]["temperature_celsius"] - temp_mean) * temp_weight
                        + (f3.rows[i]["sound_volume_proxy"] - rpm_mean) * rpm_weight]
        f4 == Assign(f3, "humidity",
                  [i \in DOMAIN f3.rows |-> Clip(humidity[i] + draw, 0, 100000)])
    IN  Select(f4, ServeColumns)

\* IsolationForest.predict / decision_function accept a frame whose columns
\* are the ones the detector was fitted on, and raise ValueError otherwise.
PredictAccepts(m, f) ==
    /\ m.kind = "IsolationForest"
    /\ f.columns = m.feature_names_in_

\* IsolationForest.predict: -1 where decision_function is negative, else 1.
Predict(score) == IF score < 0 THEN -1 ELSE 1

\* Sample decision_function values, one of them rounding to zero.
Scores == {-25004, -3, 12346}

\* Python round(x, 4) of a score in units of 1e-5: to the nearest multiple of
\* ten, ties to even.
Round4(x) ==
    LET q == x \div 10
        r == x % 10
    IN  IF r < 5 THEN 10 * q
        ELSE IF r > 5 THEN 10 * (q + 1)
        ELSE IF q % 2 = 0 THEN 10 * q ELSE 10 * (q + 1)

\* predict_anomaly(): the returned dict, as PredictionResponse serialises it
\* (is_anomaly, an int 0/1 in the code, becomes the bool).
PredictionBodyMut(prediction, score) ==
    [is_anomaly |-> Round4(score) < 0,
     anomaly_score |-> Round4(score),
     status |-> IF Round4(score) < 0 THEN "ALERT" ELSE "OK"]
PredictionBody(prediction, score) ==
    LET is_anomaly == IF prediction = -1 THEN 1 ELSE 0
    IN  [is_anomaly |-> is_anomaly = 1,
         anomaly_score |-> Round4(score),
         status |-> IF is_anomaly # 0 THEN "ALERT" ELSE "OK"]

\* A request body the SensorReading model does not validate never reaches
\* predict_anomaly: the framework answers 422.
RejectMalformed(t) ==
    /\ lpc = "serving"
    /\ threads[t].pc = "idle"
    /\ \E request \in Requests \ Readings :
          threads' = [threads EXCEPT ![t] =
              [IdleThread EXCEPT !.response = HttpError(422, "Unprocessable Entity")]]
    /\ ml_models' = HandlerRegistry(ml_models)
    /\ UNCHANGED <<lpc, rng, detectorCalls>>
    /\ UNCHANGED trainVars

\* predict_anomaly(reading), up to and including the `is None` test on the
\* registry entry.  A missing key raises KeyError.
PredictBegin(t, reading) ==
    /\ lpc = "serving"
    /\ threads[t].pc = "idle"
    /\ threads' = [threads EXCEPT ![t] =
          IF "isolation_forest" \notin DOMAIN ml_models
          THEN [IdleThread EXCEPT !.response =
                   HttpError(500, "Internal Server Error")]
          ELSE IF ModelMissing(ml_models)
          THEN [IdleThread EXCEPT !.response = HttpError(503, "Model not loaded.")]
          ELSE [IdleThread EXCEPT !.pc = "engineer", !.reading = reading]]
    /\ ml_models' = HandlerRegistry(ml_models)
    /\ UNCHANGED <<lpc, rng, detectorCalls>>
    /\ UNCHANGED trainVars

\* predict_anomaly(), "1. Process Data": engineer_single_row draws its noise
\* from the process-global generator.
EngineerStep(t) ==
    /\ threads[t].pc = "engineer"
    /\ threads' = [threads EXCEPT ![t] =
          [@ EXCEPT !.pc = "infer",
                    !.processed_data =
                        engineer_single_row(threads[t].reading.temperature_k,
                                            threads[t].reading.rotational_speed_rpm,
                                            NoiseAt(rng))]]
    /\ rng' = NextRng(rng)
    /\ ml_models' = HandlerRegistry(ml_models)
    /\ UNCHANGED <<lpc, detectorCalls>>
    /\ UNCHANGED trainVars

\* predict_anomaly(), "2. Inference": an exception of model.predict is not
\* caught and leaves as the framework's plain 500.
InferStep(t) ==
    /\ threads[t].pc = "infer"
    /\ LET m == ml_models["isolation_forest"]
           data == threads[t].processed_data
       IN  IF PredictAccepts(m, data)
           THEN /\ detectorCalls' = detectorCalls \cup
                      { DetectorCall("predict_anomaly", "predict", data),
                        DetectorCall("predict_anomaly", "decision_function", data) }
                /\ \E score \in Scores :
                      threads' = [threads EXCEPT ![t] =
                          [IdleThread EXCEPT !.prediction = Predict(score),
                                             !.score = score,
                                             !.response =
                                                 Ok(PredictionBody(Predict(score), score))]]
           ELSE /\ detectorCalls' = detectorCalls \cup
                      { DetectorCall("predict_anomaly", "predict", data) }
                /\ threads' = [threads EXCEPT ![t] =
                      [IdleThread EXCEPT !.response =
                          HttpError(500, "Internal Server Error")]]
    /\ ml_models' = HandlerRegistry(ml_models)
    /\ UNCHANGED <<lpc, rng>>
    /\ UNCHANGED trainVars

\* health_check(): a missing registry key raises KeyError.
HealthBody(registry) ==
    [status |-> "running", model_loaded |-> registry["isolation_forest"] # None]

HealthCheck(t) ==
    /\ lpc = "serving"
    /\ threads[t].pc = "idle"
    /\ threads' = [threads EXCEPT ![t] =
          [IdleThread EXCEPT !.response =
              IF "isolation_forest" \in DOMAIN ml_models
              THEN Ok(HealthBody(ml_models))
              ELSE HttpError(500, "Internal Server Error")]]
    /\ ml_models' = HandlerRegistry(ml_models)
    /\ UNCHANGED <<lpc, rng, detectorCalls>>
    /\ UNCHANGED trainVars

\* lifespan(), after the yield.  The server runs it once the requests in
\* flight have been answered.
Shutdown ==
    /\ lpc = "serving"
    /\ \A t \in Threads : threads[t].pc = "idle"
    /\ ml_models' = EmptyDict
    /\ lpc' = "stopped"
    /\ UNCHANGED <<rng, threads, detectorCalls>>
    /\ UNCHANGED trainVars

PredictAnomaly(t) ==
    (\E reading \in Readings : PredictBegin(t, reading)) \/ EngineerStep(t) \/ InferStep(t)

Request(t) == RejectMalformed(t) \/ PredictAnomaly(t) \/ HealthCheck(t)

ServeNext == Startup \/ Shutdown \/ \E t \in Threads : Request(t)

\* ------------------------------------------------------------- specifications

Init ==
    /\ dataFile \in {Absent, Unreadable} \cup CsvFiles
    /\ artifactFile \in {NoFile, StaleArtifact, IsolationForest(TrainColumns)}
    /\ tpc = "start"
    /\ df = None
    /\ features_df = None
    /\ model = None
    /\ noise = <<>>
    /\ detectorCalls = {}
    /\ ml_models = EmptyDict
    /\ lpc = "init"
    /\ rng \in 0..(RngStates - 1)
    /\ threads = [t \in Threads |-> IdleThread]

\* The service alone, its workers running concurrently.
Next == ServeNext

Spec == Init /\ [][Next]_vars

\* The training job beside a service that answers one request at a time.
PipelineNext == TrainNext \/ Startup \/ Shutdown \/ Request(1)

SpecPipeline == Init /\ [][PipelineNext]_vars

\* ------------------------------------------------------------- properties

\* The service holds a model object / holds None under the registry key.
Loaded ==
    /\ "isolation_forest" \in DOMAIN ml_models
    /\ ml_models["isolation_forest"] # None
Unloaded ==
    /\ "isolation_forest" \in DOMAIN ml_models
    /\ ml_models["isolation_forest"] = None

IsPrediction(r) == r.code = 200 /\ "is_anomaly" \in DOMAIN r.body
IsHealth(r) == r.code = 200 /\ "model_loaded" \in DOMAIN r.body

FeatureOrder == <<"sound_volume_proxy", "temperature_celsius", "humidity">>

\* C1: while the registry entry is None, every call of predict_anomaly, for
\* any reading, ends at once in the 503 "Model not loaded." error: the worker
\* never enters feature engineering or scoring, draws no noise, hands nothing
\* to a detector, and answers neither a prediction nor another error.
C1_UnloadedRejects ==
    [][\A t \in Threads : \A reading \in Readings :
          (Unloaded /\ PredictBegin(t, reading)) =>
              /\ threads'[t].pc = "idle"
              /\ threads'[t].response = HttpError(503, "Model not loaded.")
              /\ rng' = rng
              /\ detectorCalls' = detectorCalls]_vars

C1_Witness ==
    /\ Unloaded
    /\ \E t \in Threads : threads[t].response = HttpError(503, "Model not loaded.")

\* C2: no step of request handling (a rejected body, any step of
\* predict_anomaly, health_check), whatever its outcome and however the
\* workers interleave, changes the registry or the lifespan position: the
\* registry stays what startup made it.
C2_RequestsKeepRegistry ==
    [][\A t \in Threads :
          Request(t) => (ml_models' = ml_models /\ lpc' = lpc)]_vars

\* A Loaded service that has answered one request with an error and, after
\* it, another with a prediction.
C2_Witness ==
    /\ Loaded
    /\ \E t, u \in Threads :
          /\ threads[t].response.code \in {422, 500}
          /\ IsPrediction(threads[u].response)

\* C6: in every successful prediction response is_anomaly is true exactly
\* when the detector's label is -1, status is "ALERT" exactly when is_anomaly
\* is true and "OK" otherwise, and the reported score is the rounded raw
\* score; neither field depends on the rounding.
C6_ResponseFollowsLabel ==
    \A t \in Threads :
        IsPrediction(threads[t].response) =>
            LET body == threads[t].response.body
            IN  /\ body.is_anomaly = (threads[t].prediction = -1)
                /\ body.status = (IF body.is_anomaly THEN "ALERT" ELSE "OK")
                /\ body.anomaly_score = Round4(threads[t].score)

\* An anomaly whose raw score rounds to zero.
C6_Witness ==
    \E t \in Threads :
        /\ IsPrediction(threads[t].response)
        /\ threads[t].prediction = -1
        /\ threads[t].response.body.anomaly_score = 0
        /\ threads[t].response.body.status = "ALERT"

\* C9: while the service is serving, every call of health_check answers 200
\* with status "running" and model_loaded true exactly when the registry
\* holds a model object; the registry key is never missing.
C9_HealthReportsState ==
    [][\A t \in Threads :
          HealthCheck(t) =>
              threads'[t].response =
                  Ok([status |-> "running", model_loaded |-> Loaded])]_vars

C9_Witness ==
    /\ Unloaded
    /\ \E t \in Threads :
          /\ IsHealth(threads[t].response)
          /\ threads[t].response.body.model_loaded = FALSE

\* C4: the humidity of every row of the batch feature matrix, and of every
\* single-row feature frame of the service, lies in [0, 100].
C4_HumidityInRange ==
    /\ features_df # None =>
          \A i \in DOMAIN features_df.rows :
              /\ features_df.rows[i]["humidity"] >= 0
              /\ features_df.rows[i]["humidity"] <= 100000
    /\ \A t \in Threads :
          threads[t].processed_data # None =>
              /\ threads[t].processed_data.rows[1]["humidity"] >= 0
              /\ threads[t].processed_data.rows[1]["humidity"] <= 100000

\* A batch matrix clipped at both ends beside a single-row frame clipped at
\* the upper end.
C4_Witness ==
    /\ features_df # None
    /\ \E i, j \in DOMAIN features_df.rows :
          /\ features_df.rows[i]["humidity"] = 0
          /\ features_df.rows[j]["humidity"] = 100000
    /\ threads[1].processed_data # None
    /\ threads[1].processed_data.rows[1]["humidity"] = 100000

\* C5: every frame handed to a detector (fit in train_model, predict and
\* decision_function in run_simulation and in predict_anomaly) has exactly
\* the columns sound_volume_proxy, temperature_celsius, humidity, in this order.
C5_FeatureOrder ==
    \A c \in detectorCalls : c.columns = FeatureOrder

C5_Witness ==
    /\ \E c \in detectorCalls : c.site = "train_model" /\ c.op = "fit"
    /\ \E c \in detectorCalls : c.site = "run_simulation" /\ c.op = "decision_function"
    /\ \E c \in detectorCalls : c.site = "predict_anomaly" /\ c.op = "decision_function"

\* C8: the artifact file is written only by the step from "trained" to
\* "saved", that is after load_data, engineer_features and train_model have
\* returned in this order, and what is written is the fitted model; a run
\* whose load_data returned None ends straight from the start, with the
\* artifact file as it was, and writes nothing afterwards.
C8_SaveOnlyAfterFit ==
    [][/\ (artifactFile' # artifactFile \/ (tpc' = "saved" /\ tpc # "saved")) =>
              /\ tpc = "trained" /\ tpc' = "saved"
              /\ df # None /\ features_df # None /\ model # None
              /\ features_df = engineer_features(df, noise)
              /\ model = train_model(features_df)
              /\ artifactFile' = model
       /\ tpc' = "returned" =>
              /\ tpc \in {"start", "returned"}
              /\ df' = None
              /\ artifactFile' = artifactFile]_vars

\* A run that found no artifact and left the fitted model there.
C8_Witness ==
    /\ tpc = "saved"
    /\ model # None
    /\ artifactFile = model

\* C3 (as claimed): every row of the batch feature matrix is what
\* engineer_single_row returns for the same reading and the same noise draw.
C3_ServingReproducesTraining ==
    features_df # None =>
        \A i \in DOMAIN features_df.rows :
            engineer_single_row(df.rows[i]["Air temperature [K]"],
                                df.rows[i]["Rotational speed [rpm]"],
                                noise[i]).rows[1] = features_df.rows[i]

\* C7 (as claimed): a scoring request that ends in a server error carries
\* the expected feature names in its payload.
C7_PredictionErrorNamesFeatures ==
    \A t \in Threads :
        threads[t].response.code = 500 =>
            /\ "expected_features" \in DOMAIN threads[t].response
            /\ threads[t].response.expected_features = FeatureOrder

\* C10 (as claimed): the noise a request waiting to draw will get does not
\* depend on another request drawing first.
C10_IndependentNoise ==
    [][\A t, u \in Threads :
          (t # u /\ threads[t].pc = "engineer" /\ EngineerStep(u)) =>
              NoiseAt(rng') = NoiseAt(rng)]_vars

====
